---- MODULE Spec2Model ----
(***************************************************************************)
(* Model of retrieval/gip_retrieval.py: generalized-inner-product (GIP)   *)
(* retrieval over a corpus of precomputed vectors.                         *)
(*                                                                         *)
(* Embedding values and theta are integers here (the code uses float32);  *)
(* indices are 0-based as in the code, so row r of a matrix m is m[r+1].  *)
(* torch.topk and torch.argsort do not fix the order of equal scores, so  *)
(* they are modelled as the set of every order they may return.           *)
(***************************************************************************)
EXTENDS Integers, Sequences, FiniteSets, TLC

\* ------------------------------------------------------------------ bounds
MaxTopk == 2
MaxAgipTopk == 2
MaxTheta == 1
MaxQueryVal == 2

\* --------------------------------------------------------- input universe
\* The query snapshots explored: every pair of these three queries
\* (embedding, argument index).  The first is the worked example of the
\* design notes; the second has no value above theta = 1 and a negative one.
QueryPool ==
  { [emb |-> <<1, 2, 3>>,  arg |-> <<0, 0, 1>>],
    [emb |-> <<1, 0, -1>>, arg |-> <<1, 0, 0>>],
    [emb |-> <<2, 2, 0>>,  arg |-> <<0, 1, 1>>] }

QuerySnapshots == [1..2 -> QueryPool]

\* The corpus snapshots explored, of 1 to 4 items: the example candidate
\* alone, three distinct items in two orders, a corpus with a repeated item
\* (equal scores), and a corpus of four.
Corpora ==
  LET d1 == [emb |-> <<1, 1, 1>>, arg |-> <<0, 1, 1>>]
      d2 == [emb |-> <<0, 2, 1>>, arg |-> <<0, 0, 1>>]
      d3 == [emb |-> <<3, 0, 2>>, arg |-> <<1, 0, 0>>]
      d4 == [emb |-> <<2, 1, 0>>, arg |-> <<0, 0, 0>>]
  IN  { << d1 >>,
        << d1, d2, d3 >>,
        << d3, d1, d2 >>,
        << d2, d1, d2 >>,
        << d4, d3, d2, d1 >> }

\* The end-to-end scenario of the design notes: 2 queries, 4 corpus items,
\* dimension 2.
Queries2D ==
  << [emb |-> <<1, 2>>,  arg |-> <<0, 1>>],
     [emb |-> <<2, -1>>, arg |-> <<1, 1>>] >>
Corpus2D ==
  << [emb |-> <<1, 0>>,  arg |-> <<0, 0>>],
     [emb |-> <<0, 1>>,  arg |-> <<1, 1>>],
     [emb |-> <<1, 1>>,  arg |-> <<0, 1>>],
     [emb |-> <<3, -1>>, arg |-> <<1, 0>>] >>

\* (query snapshot, corpus snapshot) pairs of one dimension
Snapshots ==
  (QuerySnapshots \X Corpora) \cup { << Queries2D, Corpus2D >> }

\* --emb_dim values tried: the full dimension, or one semantic (CLS) column.
EmbDims == {2, 3}

\* A missing argument index (pickle holds None): written as a function that
\* is no sequence, so that None differs from an array of 0 rows.
None == -1 :> -1

\* --faiss_pq_index_path left at its default (None), or given.
NoPath == "None"
PQPath == "corpus.pq.index"

\* ------------------------------------------------------- tensor operators
RECURSIVE SumSeq(_)
SumSeq(s) == IF s = << >> THEN 0 ELSE Head(s) + SumSeq(Tail(s))

\* torch.einsum('j,j->', a, b) for one row.
Dot(a, b) == SumSeq([j \in 1..Len(a) |-> a[j] * b[j]])

\* torch.einsum('ij,j->i', (m, v))
Einsum(m, v) == [r \in 1..Len(m) |-> Dot(m[r], v)]

\* tensor.shape[1] of a non-empty matrix
Shape1(m) == Len(m[1])

\* torch.nn.functional.pad(t, (0, n), mode='constant', value=1) on a matrix
Pad(t, n) == [r \in 1..Len(t) |-> t[r] \o [j \in 1..n |-> 1]]

\* (c_arg == q_arg) * c_emb for one corpus row
MaskNoGate(c_arg, q_arg, c_emb) == c_emb
Mask(c_arg, q_arg, c_emb) ==
  [j \in 1..Len(c_emb) |-> IF c_arg[j] = q_arg[j] THEN c_emb[j] ELSE 0]

\* ((corpus_arg_idxs == query_arg_idx) * corpus_embs), then einsum with query
GIPScores(c_args, c_embs, q_arg, q_emb) ==
  Einsum([r \in 1..Len(c_embs) |-> Mask(c_args[r], q_arg, c_embs[r])], q_emb)

\* t[idx] for a 0-based index sequence idx
Gather(t, idx) == [n \in 1..Len(idx) |-> t[idx[n] + 1]]

\* t[p] for one index p that may be negative: python counts from the end
PyAt(t, p) == IF p < 0 THEN t[Len(t) + p + 1] ELSE t[p + 1]

\* p is an index python accepts on t: -len(t) <= p < len(t)
InRange(t, p) == p < Len(t) /\ p >= 0 - Len(t)

\* t[idx] for an index sequence that may hold negative indices
PyGather(t, idx) == [n \in 1..Len(idx) |-> PyAt(t, idx[n])]

\* Every index sequence of length k that lists k distinct positions with
\* non-increasing value, none of the left-out positions having a larger
\* value than the last listed one.
SortedPrefixes(values, k) ==
  { s \in [1..k -> 0..(Len(values) - 1)] :
      /\ \A a, b \in 1..k : a < b =>
            /\ s[a] # s[b]
            /\ values[s[a] + 1] >= values[s[b] + 1]
      /\ \A p \in 0..(Len(values) - 1) :
            (\A a \in 1..k : s[a] # p) =>
               \A a \in 1..k : values[s[a] + 1] >= values[p + 1] }

\* torch.topk(values, k, dim=0).indices : raises when k exceeds the length
TopkRaises(values, k) == k > Len(values)
TopkAscending(values, k) ==
  { s \in [1..k -> 0..(Len(values) - 1)] :
      /\ \A a, b \in 1..k : a < b =>
            /\ s[a] # s[b]
            /\ values[s[a] + 1] <= values[s[b] + 1] }
Topk(values, k) == SortedPrefixes(values, k)

\* torch.argsort(values, descending=True)[:k] : slicing never raises
Min2(a, b) == IF a < b THEN a ELSE b
ArgsortNoSlice(values, k) == SortedPrefixes(values, Len(values))
ArgsortDesc(values, k) == SortedPrefixes(values, Min2(k, Len(values)))

\* int((query_emb > theta).sum())
NumIdxInverted(query_emb, theta) ==
  Cardinality({j \in 1..Len(query_emb) : query_emb[j] < theta})
NumIdx(query_emb, theta) ==
  Cardinality({j \in 1..Len(query_emb) : query_emb[j] > theta})

\* torch.topk(query_emb, num_idx, dim=0).indices.tolist()
ImportantIdx(query_emb, theta) == Topk(query_emb, NumIdx(query_emb, theta))

\* t[:, important_idx] for one row
Cols(row, idx) == [n \in 1..Len(idx) |-> row[idx[n] + 1]]

\* lines 135-136: gating and dot product on the important columns only
PartialGIPAllDims(c_args, c_embs, q_arg, q_emb, idx) ==
  GIPScores(c_args, c_embs, q_arg, q_emb)
PartialGIP(c_args, c_embs, q_arg, q_emb, idx) ==
  Einsum([r \in 1..Len(c_embs) |->
            Mask(Cols(c_args[r], idx), Cols(q_arg, idx), Cols(c_embs[r], idx))],
         Cols(q_emb, idx))

\* line 139: plain inner product over all dimensions
PartialIP(c_embs, q_emb) == Einsum(c_embs, q_emb)

\* query_embs[:, -cls_dim:] = lamda * query_embs[:, -cls_dim:]
ScaleAll(m, cls_dim, lamda) ==
  [r \in 1..Len(m) |-> [j \in 1..Len(m[r]) |-> lamda * m[r][j]]]
ScaleTail(m, cls_dim, lamda) ==
  [r \in 1..Len(m) |->
     [j \in 1..Len(m[r]) |->
        IF j > Len(m[r]) - cls_dim THEN lamda * m[r][j] ELSE m[r][j]]]

\* python slice t[lo:hi] on a sequence (0-based, hi exclusive, clamped)
Slice(t, lo, hi) ==
  LET h == Min2(hi, Len(t))
  IN  IF lo >= h THEN << >> ELSE SubSeq(t, lo + 1, h)

\* A python int standing where a list is expected is written 0 :> n: it is
\* no sequence, has no length and cannot be iterated.
PyInt(n) == 0 :> n
IsPyInt(x) == DOMAIN x = {0}

\* ndarray[idx].tolist() with idx a torch tensor (line 211): numpy takes a
\* tensor of one element for the integer idx.__index__() and returns that
\* element itself, not an array of one element.
NumpyGather(t, idx) ==
  IF Len(idx) = 1
  THEN PyInt(t[idx[1] + 1])
  ELSE [n \in 1..Len(idx) |-> t[idx[n] + 1]]

\* ------------------------------------------------------------------ state
VARIABLES
  args,              \* parsed command line (argparse namespace)
  query_embs,        \* main: query vectors
  query_arg_idxs,    \* main: query argument indices, or None
  qids,              \* main: query ids
  corpus_embs,       \* main: corpus vectors of the shard
  corpus_arg_idxs,   \* main: corpus argument indices of the shard, or None
  docids,            \* main: doc ids of the shard
  pc,                \* position of the run
  error,             \* exception that ended the run, "" if none
  q_args,            \* GIP_retrieval local query_arg_idxs (after padding)
  c_args,            \* GIP_retrieval local corpus_arg_idxs (after padding)
  i,                 \* number of queries processed by the retrieval loop
  important_idx,     \* last query: important dimensions
  partial_scores,    \* last query: approximate scores of the corpus
  candidates,        \* last query: shortlist
  scores,            \* last query: exact scores (corpus or shortlist)
  all_results,       \* qid -> ranked local corpus indices
  all_scores,        \* qid -> ranked scores
  w,                 \* number of queries written
  fout,              \* rows written to the ranking file
  selected,          \* theta -> important dimensions selected at that theta
  pq_index_file,     \* vectors held by the file at --faiss_pq_index_path
  faiss_index,       \* PQ_IP_retrieval: the index read from that file
  batch_i,           \* PQ_IP_retrieval: batches the outer loop has taken
  index_pickle,      \* the file at --index_path, as read by each shard run
  shard_log,         \* shard number -> the slice that shard's run loaded
  flat_globals,      \* the module globals bind faiss (and Bar, Timer, ...)
  flat_query_embs,   \* faiss_search: query_embs after doubling
  flat_corpus_embs,  \* faiss_search: corpus_embs after doubling (the index)
  flat_i,            \* faiss_search: loop variable i, << >> while unbound
  Distance,          \* faiss_search: list of per-batch distances
  Index              \* faiss_search: list of per-batch indices

vars == << args, query_embs, query_arg_idxs, qids, corpus_embs,
           corpus_arg_idxs, docids, pc, error, q_args, c_args, i,
           important_idx, partial_scores, candidates, scores,
           all_results, all_scores, w, fout, selected, pq_index_file,
           faiss_index, batch_i, index_pickle,
           shard_log, flat_globals, flat_query_embs, flat_corpus_embs,
           flat_i, Distance, Index >>

data == << query_embs, query_arg_idxs, qids, corpus_embs, corpus_arg_idxs,
           docids >>
locals == << important_idx, partial_scores, candidates, scores >>
pq == << pq_index_file, faiss_index, batch_i >>
shard == << index_pickle, shard_log >>
flat == << flat_globals, flat_query_embs, flat_corpus_embs, flat_i, Distance,
          Index >>
aux == << pq, shard, flat >>

\* Nothing read from an index file, no shard run logged, faiss_search not
\* called.
PQIdle ==
  /\ pq_index_file = << >>
  /\ faiss_index = << >>
  /\ batch_i = 0
ShardIdle ==
  /\ index_pickle = << >>
  /\ shard_log = << >>
FlatNotCalled ==
  /\ flat_query_embs = << >>
  /\ flat_corpus_embs = << >>
  /\ flat_i = << >>
  /\ Distance = << >>
  /\ Index = << >>
\* The file as it stands binds none of these names at module level: the one
\* "import faiss" is inside main (line 325) and binds a local of main.
FlatIdle ==
  /\ flat_globals = FALSE
  /\ FlatNotCalled

\* ------------------------------------------------------------------- Init
\* The command lines explored.  PQ_IP_retrieval (--PQIP) is not modelled;
\* lamda and the shard options keep their defaults (lines 249-251).
ArgsSpace ==
  [ theta       : 0..MaxTheta,
    topk        : 1..MaxTopk,
    agip_topk   : 1..MaxAgipTopk,
    emb_dim     : EmbDims,
    IP          : BOOLEAN,
    PQIP        : {FALSE},
    brute_force : BOOLEAN,
    rerank      : BOOLEAN,
    lamda       : {1},
    total_shrad : {1},
    shrad       : {0},
    batch       : {1},
    faiss_pq_index_path : {NoPath} ]

\* The state after argument parsing and unpickling the two snapshots
\* (main, lines 253, 266, 290).  Ids are positions: query k has id k and the
\* corpus item at position n has id n, so query k meets itself in the corpus.
Init ==
  \E a \in ArgsSpace, snap \in Snapshots, q_has_arg \in BOOLEAN :
    LET qs == snap[1]
        ds == snap[2]
        width == Min2(a.emb_dim, Len(qs[1].emb))
    IN
    /\ args = a
    /\ query_embs = [k \in 1..Len(qs) |-> qs[k].emb]
    /\ query_arg_idxs =
         IF q_has_arg
         THEN [k \in 1..Len(qs) |-> SubSeq(qs[k].arg, 1, width)]
         ELSE None
    /\ qids = [k \in 1..Len(qs) |-> k]
    /\ corpus_embs = [n \in 1..Len(ds) |-> ds[n].emb]
    /\ corpus_arg_idxs = [n \in 1..Len(ds) |-> SubSeq(ds[n].arg, 1, width)]
    /\ docids = [n \in 1..Len(ds) |-> n]
    /\ pc = "load"
    /\ error = ""
    /\ q_args = None
    /\ c_args = None
    /\ i = 0
    /\ important_idx = << >>
    /\ partial_scores = << >>
    /\ candidates = << >>
    /\ scores = << >>
    /\ all_results = << >>
    /\ all_scores = << >>
    /\ w = 0
    /\ fout = << >>
    /\ selected = << >>
    /\ PQIdle /\ ShardIdle /\ FlatIdle

\* ----------------------------------------------------------------- helpers
\* An uncaught exception ends the run: nothing is returned, nothing written.
Raise(msg) ==
  /\ pc' = "error"
  /\ error' = msg
  /\ UNCHANGED << args, data, q_args, c_args, i, locals, all_results,
                  all_scores, w, fout, selected, aux >>

TopkError == "RuntimeError: selected index k out of range"

\* d[key] = value on a python dict
DictPutShared(d, key, value) == [k \in DOMAIN d \cup {key} |-> value]
DictPut(d, key, value) == (key :> value) @@ d

\* --------------------------------------------------------------- main: load
\* main, lines 264-315: weight the semantic block of the queries by lamda,
\* then keep only the corpus slice of this shard.
LoadDropRemainder ==
  /\ pc = "load"
  /\ LET cls_dim == Shape1(query_embs) - args.emb_dim
         doc_num_per_shrad == Len(docids) \div args.total_shrad
         lo == doc_num_per_shrad * args.shrad
         hi == doc_num_per_shrad * (args.shrad + 1)
     IN  /\ query_embs' = IF cls_dim > 0
                          THEN ScaleTail(query_embs, cls_dim, args.lamda)
                          ELSE query_embs
         /\ corpus_embs' = Slice(corpus_embs, lo, hi)
         /\ corpus_arg_idxs' = IF corpus_arg_idxs = None THEN None
                               ELSE Slice(corpus_arg_idxs, lo, hi)
         /\ docids' = Slice(docids, lo, hi)
  /\ pc' = "dispatch"
  /\ UNCHANGED << args, query_arg_idxs, qids, error, q_args, c_args, i,
                  locals, all_results, all_scores, w, fout, selected, aux >>
LoadWholeCorpus ==
  /\ pc = "load"
  /\ LET cls_dim == Shape1(query_embs) - args.emb_dim
         doc_num_per_shrad == Len(docids) \div args.total_shrad
         lo == doc_num_per_shrad * args.shrad
         hi == IF args.shrad = args.total_shrad - 1
               THEN Len(docids)
               ELSE doc_num_per_shrad * (args.shrad + 1)
     IN  /\ query_embs' = IF cls_dim > 0
                          THEN ScaleTail(query_embs, cls_dim, args.lamda)
                          ELSE query_embs
         /\ docids' = Slice(docids, lo, hi)
  /\ pc' = "dispatch"
  /\ UNCHANGED << args, query_arg_idxs, qids, corpus_embs, corpus_arg_idxs,
                  error, q_args, c_args, i, locals, all_results, all_scores,
                  w, fout, selected, aux >>
Load ==
  /\ pc = "load"
  /\ LET cls_dim == Shape1(query_embs) - args.emb_dim
         doc_num_per_shrad == Len(docids) \div args.total_shrad
         lo == doc_num_per_shrad * args.shrad
         hi == IF args.shrad = args.total_shrad - 1
               THEN Len(docids)
               ELSE doc_num_per_shrad * (args.shrad + 1)
     IN  /\ query_embs' = IF cls_dim > 0
                          THEN ScaleTail(query_embs, cls_dim, args.lamda)
                          ELSE query_embs
         /\ corpus_embs' = Slice(corpus_embs, lo, hi)
         /\ corpus_arg_idxs' = IF corpus_arg_idxs = None THEN None
                               ELSE Slice(corpus_arg_idxs, lo, hi)
         /\ docids' = Slice(docids, lo, hi)
  /\ pc' = "dispatch"
  /\ UNCHANGED << args, query_arg_idxs, qids, error, q_args, c_args, i,
                  locals, all_results, all_scores, w, fout, selected, aux >>

\* ------------------------------------------------------------ IP_retrieval
\* main line 328 and IP_retrieval lines 62-69: no query argument index.
EnterIP ==
  /\ pc = "dispatch"
  /\ query_arg_idxs = None
  /\ pc' = "ip"
  /\ UNCHANGED << args, data, error, q_args, c_args, i, locals,
                  all_results, all_scores, w, fout, selected, aux >>

\* IP_retrieval, lines 70-79: one query of the loop.
IPQuery ==
  /\ pc = "ip"
  /\ i < Len(query_embs)
  /\ LET query_emb == query_embs[i + 1]
         sc == Einsum(corpus_embs, query_emb)
     IN  \E sort_candidates \in ArgsortDesc(sc, args.topk) :
           /\ scores' = sc
           /\ all_scores' = DictPut(all_scores, qids[i + 1],
                                    Gather(sc, sort_candidates))
           /\ all_results' = DictPut(all_results, qids[i + 1], sort_candidates)
  /\ i' = i + 1
  /\ UNCHANGED << args, data, pc, error, q_args, c_args, important_idx,
                  partial_scores, candidates, w, fout, selected, aux >>

\* ----------------------------------------------------------- GIP_retrieval
\* main line 323 and GIP_retrieval lines 89-113: brute_force overrides theta,
\* and both argument indices get the semantic columns appended (value 1).
EnterGIPKeepTheta ==
  /\ pc = "dispatch"
  /\ query_arg_idxs # None
  /\ ~args.PQIP
  /\ args' = args
  /\ LET cls_dim == Shape1(query_embs) - args.emb_dim
     IN  /\ q_args' = IF cls_dim > 0 THEN Pad(query_arg_idxs, cls_dim)
                      ELSE query_arg_idxs
         /\ c_args' = IF cls_dim > 0 THEN Pad(corpus_arg_idxs, cls_dim)
                      ELSE corpus_arg_idxs
  /\ pc' = "gip"
  /\ UNCHANGED << data, error, i, locals, all_results, all_scores, w, fout,
                  selected, aux >>
EnterGIPPadCorpusZero ==
  /\ pc = "dispatch"
  /\ query_arg_idxs # None
  /\ ~args.PQIP
  /\ args' = IF args.brute_force THEN [args EXCEPT !.theta = 0] ELSE args
  /\ LET cls_dim == Shape1(query_embs) - args.emb_dim
     IN  /\ q_args' = IF cls_dim > 0 THEN Pad(query_arg_idxs, cls_dim)
                      ELSE query_arg_idxs
         /\ c_args' = IF cls_dim > 0
                      THEN [r \in 1..Len(corpus_arg_idxs) |->
                              corpus_arg_idxs[r] \o [j \in 1..cls_dim |-> 0]]
                      ELSE corpus_arg_idxs
  /\ pc' = "gip"
  /\ UNCHANGED << data, error, i, locals, all_results, all_scores, w, fout,
                  selected, aux >>
\* An index pickle without argument indices leaves corpus_arg_idxs None
\* (lines 295-298), which torch.nn.functional.pad rejects (line 113) after
\* the query side has been padded (line 112); a slice of 0 rows is not
\* None and is padded like any other.
EnterGIP ==
  /\ pc = "dispatch"
  /\ query_arg_idxs # None
  /\ ~args.PQIP
  /\ args' = IF args.brute_force THEN [args EXCEPT !.theta = 0] ELSE args
  /\ LET cls_dim == Shape1(query_embs) - args.emb_dim
     IN  IF cls_dim > 0 /\ corpus_arg_idxs = None
         THEN /\ q_args' = Pad(query_arg_idxs, cls_dim)
              /\ pc' = "error"
              /\ error' = "TypeError"
              /\ UNCHANGED c_args
         ELSE /\ q_args' = IF cls_dim > 0 THEN Pad(query_arg_idxs, cls_dim)
                           ELSE query_arg_idxs
              /\ c_args' = IF cls_dim > 0 THEN Pad(corpus_arg_idxs, cls_dim)
                           ELSE corpus_arg_idxs
              /\ pc' = "gip"
              /\ error' = error
  /\ UNCHANGED << data, i, locals, all_results, all_scores, w, fout,
                  selected, aux >>

\* GIP_retrieval, lines 117-126 and 158-159: one query, theta == 0.
GIPBruteForce ==
  /\ pc = "gip"
  /\ i < Len(query_embs)
  /\ args.theta = 0
  /\ LET query_emb == query_embs[i + 1]
         query_arg_idx == q_args[i + 1]
         sc == GIPScores(c_args, corpus_embs, query_arg_idx, query_emb)
     IN  IF TopkRaises(sc, args.topk)
         THEN Raise(TopkError)
         ELSE \E sort_idx \in Topk(sc, args.topk) :
                /\ scores' = sc
                /\ all_scores' = DictPut(all_scores, qids[i + 1],
                                         Gather(sc, sort_idx))
                /\ all_results' = DictPut(all_results, qids[i + 1], sort_idx)
                /\ i' = i + 1
                /\ UNCHANGED << args, data, pc, error, q_args, c_args,
                                important_idx, partial_scores, candidates,
                                w, fout, selected, aux >>

\* lines 130-139: the approximate scores of the whole corpus for one query
PartialScoresGated(query_emb, query_arg_idx, idx) ==
  PartialGIP(c_args, corpus_embs, query_arg_idx, query_emb, idx)
PartialScores(query_emb, query_arg_idx, idx) ==
  IF ~args.IP
  THEN PartialGIP(c_args, corpus_embs, query_arg_idx, query_emb, idx)
  ELSE PartialIP(corpus_embs, query_emb)

\* GIP_retrieval, lines 130-139, 154-159: one query, theta > 0, no rerank.
GIPApprox ==
  /\ pc = "gip"
  /\ i < Len(query_embs)
  /\ args.theta # 0
  /\ ~args.rerank
  /\ LET query_emb == query_embs[i + 1]
         query_arg_idx == q_args[i + 1]
     IN  \E idx \in ImportantIdx(query_emb, args.theta) :
           LET ps == PartialScores(query_emb, query_arg_idx, idx)
           IN  IF TopkRaises(ps, args.topk)
               THEN Raise(TopkError)
               ELSE \E sort_candidates \in Topk(ps, args.topk) :
                      /\ important_idx' = idx
                      /\ partial_scores' = ps
                      /\ all_scores' = DictPut(all_scores, qids[i + 1],
                                               Gather(ps, sort_candidates))
                      /\ all_results' = DictPut(all_results, qids[i + 1],
                                                sort_candidates)
                      /\ i' = i + 1
                      /\ UNCHANGED << args, data, pc, error, q_args, c_args,
                                      candidates, scores, w, fout,
                                      selected, aux >>

\* lines 144-146: exact GIP scores of the shortlisted corpus rows
RerankScoresPartial(query_emb, query_arg_idx, cand, ps) == Gather(ps, cand)
RerankScores(query_emb, query_arg_idx, cand, ps) ==
  GIPScores(Gather(c_args, cand), Gather(corpus_embs, cand),
            query_arg_idx, query_emb)

\* line 149: sort_candidates = candidates[sort_idx]
SortCandidatesUnmapped(cand, sort_idx) == sort_idx
SortCandidates(cand, sort_idx) == Gather(cand, sort_idx)

\* GIP_retrieval, lines 130-153, 158-159: one query, theta > 0, rerank.
GIPRerank ==
  /\ pc = "gip"
  /\ i < Len(query_embs)
  /\ args.theta # 0
  /\ args.rerank
  /\ LET query_emb == query_embs[i + 1]
         query_arg_idx == q_args[i + 1]
     IN  \E idx \in ImportantIdx(query_emb, args.theta) :
           LET ps == PartialScores(query_emb, query_arg_idx, idx)
           IN  IF TopkRaises(ps, args.agip_topk)
               THEN Raise(TopkError)
               ELSE \E cand \in Topk(ps, args.agip_topk) :
                      LET sc == RerankScores(query_emb, query_arg_idx, cand, ps)
                      IN  IF TopkRaises(sc, args.topk)
                          THEN Raise(TopkError)
                          ELSE \E sort_idx \in Topk(sc, args.topk) :
                                 /\ important_idx' = idx
                                 /\ partial_scores' = ps
                                 /\ candidates' = cand
                                 /\ scores' = sc
                                 /\ all_scores' =
                                      DictPut(all_scores, qids[i + 1],
                                              Gather(sc, sort_idx))
                                 /\ all_results' =
                                      DictPut(all_results, qids[i + 1],
                                              SortCandidates(cand, sort_idx))
                                 /\ i' = i + 1
                                 /\ UNCHANGED << args, data, pc, error,
                                                 q_args, c_args, w, fout,
                                                 selected, aux >>

\* lines 161-165 / 81-85 and main lines 330-333: the loop is over, the
\* dictionaries are returned and the ranking file is opened.
Return ==
  /\ pc \in {"gip", "ip"}
  /\ i = Len(query_embs)
  /\ pc' = "write"
  /\ UNCHANGED << args, data, error, q_args, c_args, i, locals,
                  all_results, all_scores, w, fout, selected, aux >>

\* -------------------------------------------------------------- main: write
\* lines 338-342 for one query: the rows of result, self-hit left out
RowsNoFilter(query_id, result, score) ==
  [n \in 1..Len(result) |->
     [query_id |-> query_id, docid |-> PyAt(docids, result[n]),
      rank |-> n, score |-> score[n]]]
RowsRenumbered(query_id, result, score) ==
  LET kept == SelectSeq([n \in 1..Len(result) |->
                           [query_id |-> query_id,
                            docid |-> PyAt(docids, result[n]),
                            rank |-> n, score |-> score[n]]],
                        LAMBDA row : row.docid # row.query_id)
  IN  [m \in 1..Len(kept) |-> [kept[m] EXCEPT !.rank = m]]
Rows(query_id, result, score) ==
  SelectSeq([n \in 1..Len(result) |->
               [query_id |-> query_id, docid |-> PyAt(docids, result[n]),
                rank |-> n, score |-> score[n]]],
            LAMBDA row : row.docid # row.query_id)

\* main, lines 334-342: one iteration of the loop over results (a dict keeps
\* insertion order: the order of the distinct qids).
\* enumerate(result) raises TypeError when result is an int (line 338), and
\* docids[docidx] raises IndexError on an index outside the list: the rows
\* before it have been written by then.
WriteQuery ==
  /\ pc = "write"
  /\ w < Len(qids)
  /\ LET query_id == qids[w + 1]
         result == all_results[query_id]
         bad == { n \in 1..Len(result) : ~InRange(docids, result[n]) }
     IN  IF IsPyInt(result)
         THEN /\ pc' = "error"
              /\ error' = "TypeError"
              /\ UNCHANGED << fout, w >>
         ELSE
         IF bad = {}
         THEN /\ fout' = fout \o Rows(query_id, result, all_scores[query_id])
              /\ w' = w + 1
              /\ UNCHANGED << pc, error >>
         ELSE LET stop == CHOOSE n \in bad : \A m \in bad : n <= m
              IN  /\ fout' = fout \o Rows(query_id,
                                          SubSeq(result, 1, stop - 1),
                                          all_scores[query_id])
                  /\ pc' = "error"
                  /\ error' = "IndexError"
                  /\ w' = w
  /\ UNCHANGED << args, data, q_args, c_args, i, locals, all_results,
                  all_scores, selected, aux >>

\* main, lines 343-345
Finish ==
  /\ pc = "write"
  /\ w = Len(qids)
  /\ pc' = "done"
  /\ UNCHANGED << args, data, error, q_args, c_args, i, locals,
                  all_results, all_scores, w, fout, selected, aux >>

Next ==
  \/ Load
  \/ EnterIP
  \/ IPQuery
  \/ EnterGIP
  \/ GIPBruteForce
  \/ GIPApprox
  \/ GIPRerank
  \/ Return
  \/ WriteQuery
  \/ Finish

Spec == Init /\ [][Next]_vars

\* ------------------------------------------- dimension selection on its own
\* GIP_retrieval lines 130-131 applied to one query vector at rising
\* thresholds: every 3-dimension query with values -1..MaxQueryVal + 1.
\* The lines run only when theta is not 0 (line 117 sends theta == 0 to the
\* brute-force branch, which selects nothing), so the thresholds are the
\* non-zero ones, a negative one included.
ThetaQueries == [1..3 -> -1..(MaxQueryVal + 1)]
Thetas == (-1..(MaxTheta + 1)) \ {0}

InitTheta ==
  \E q \in ThetaQueries, t \in Thetas :
    /\ args = [theta |-> t]
    /\ query_embs = << q >>
    /\ query_arg_idxs = None
    /\ qids = << 1 >>
    /\ corpus_embs = << >>
    /\ corpus_arg_idxs = None
    /\ docids = << >>
    /\ pc = "select"
    /\ error = ""
    /\ q_args = None
    /\ c_args = None
    /\ i = 0
    /\ important_idx = << >>
    /\ partial_scores = << >>
    /\ candidates = << >>
    /\ scores = << >>
    /\ all_results = << >>
    /\ all_scores = << >>
    /\ w = 0
    /\ fout = << >>
    /\ selected = << >>
    /\ PQIdle /\ ShardIdle /\ FlatIdle

\* lines 128-131 for the query at the current theta (theta is not 0)
SelectDims ==
  /\ pc = "select"
  /\ args.theta # 0
  /\ \E idx \in ImportantIdx(query_embs[1], args.theta) :
       /\ important_idx' = idx
       /\ selected' = DictPut(selected, args.theta, idx)
  /\ pc' = "selected"
  /\ UNCHANGED << args, data, error, q_args, c_args, i, partial_scores,
                  candidates, scores, all_results, all_scores, w, fout,
                  aux >>

\* the same query is searched again with a larger --theta
RaiseTheta ==
  /\ pc = "selected"
  /\ \E t \in { u \in Thetas : u > args.theta } :
       args' = [args EXCEPT !.theta = t]
  /\ pc' = "select"
  /\ UNCHANGED << data, error, q_args, c_args, i, locals, all_results,
                  all_scores, w, fout, selected, aux >>

NextTheta ==
  \/ SelectDims
  \/ RaiseTheta

SpecTheta == InitTheta /\ [][NextTheta]_vars

\* ------------------------------------------------------------ faiss_search
\* faiss_search(query_embs, corpus_embs, batch, topk) on its own.  Nothing in
\* the module imports faiss or the progress-bar names it uses, so the call
\* gets past line 17 only when its caller has put them in the module globals
\* (flat_globals).  Scores are integers: the float16 storage of the index is
\* not modelled.
MaxBatch == 3
MaxFlatQueries == 3

FlatVectors == { <<1, 0>>, <<0, 1>>, <<1, 2>> }
FlatCorpora == { << <<1, 1>> >>,
                 << <<2, 0>>, <<0, 1>> >>,
                 << <<1, 0>>, <<1, 2>>, <<0, 2>> >> }
FlatQueries == UNION { [1..n -> FlatVectors] : n \in 1..MaxFlatQueries }

\* np.concatenate([x, x], axis=1)
DoubledShifted(m) ==
  [r \in 1..Len(m) |-> m[r] \o [j \in 1..Len(m[r]) |-> m[r][j] + 1]]
Doubled(m) == [r \in 1..Len(m) |-> m[r] \o m[r]]

\* What index.search puts in the slots it has no item for.
NoLabel == -1
FloatMin == -1000

\* index.search(x, k) on an inner-product index holding the rows of index:
\* D[r] and I[r] for every row r of x; when k exceeds the index size the
\* missing slots hold the label -1 and the lowest score.
IndexSearch(index, x, k) ==
  LET m == Min2(k, Len(index))
      row(r) == Einsum(index, x[r])
      orders == UNION { Topk(row(r), m) : r \in 1..Len(x) }
  IN  { [D |-> [r \in 1..Len(x) |->
                  Gather(row(r), I[r]) \o [j \in 1..(k - m) |-> FloatMin]],
         I |-> [r \in 1..Len(x) |->
                  I[r] \o [j \in 1..(k - m) |-> NoLabel]]] :
        I \in { f \in [1..Len(x) -> orders] :
                  \A r \in 1..Len(x) : f[r] \in Topk(row(r), m) } }

\* np.concatenate(list_of_batches, axis=0)
RECURSIVE Concat(_)
Concat(batches) ==
  IF batches = << >> THEN << >> ELSE Head(batches) \o Concat(Tail(batches))

InitFlat ==
  \E q \in FlatQueries, c \in FlatCorpora, b \in 1..MaxBatch,
     g \in BOOLEAN :
    \E k \in 1..Min2(MaxTopk, Len(c)) :
      /\ args = [batch |-> b, topk |-> k]
      /\ query_embs = q
      /\ query_arg_idxs = None
      /\ qids = [n \in 1..Len(q) |-> n]
      /\ corpus_embs = c
      /\ corpus_arg_idxs = None
      /\ docids = [n \in 1..Len(c) |-> n]
      /\ pc = "flat_start"
      /\ error = ""
      /\ q_args = None
      /\ c_args = None
      /\ i = 0
      /\ important_idx = << >>
      /\ partial_scores = << >>
      /\ candidates = << >>
      /\ scores = << >>
      /\ all_results = << >>
      /\ all_scores = << >>
      /\ w = 0
      /\ fout = << >>
      /\ selected = << >>
      /\ PQIdle /\ ShardIdle
      /\ flat_globals = g
      /\ flat_query_embs = << >>
      /\ flat_corpus_embs = << >>
      /\ flat_i = << >>
      /\ Distance = << >>
      /\ Index = << >>

FlatUnchanged ==
  UNCHANGED << args, data, q_args, c_args, i, locals, all_results,
               all_scores, w, fout, selected, pq, shard, flat_globals >>

\* lines 15-37: double both matrices, build the index, start the lists
FlatStart ==
  /\ pc = "flat_start"
  /\ IF ~flat_globals
     THEN Raise("NameError")
     ELSE /\ flat_query_embs' = Doubled(query_embs)
          /\ flat_corpus_embs' = Doubled(corpus_embs)
          /\ Distance' = << >>
          /\ Index' = << >>
          /\ pc' = "flat_loop"
          /\ UNCHANGED << error, flat_i >>
          /\ FlatUnchanged

\* range(query_embs.shape[0]//batch): the value the loop variable takes next
NextFlatI == IF flat_i = << >> THEN 0 ELSE flat_i[1] + 1

\* lines 39-45: one full batch
FlatBatch ==
  /\ pc = "flat_loop"
  /\ NextFlatI < Len(flat_query_embs) \div args.batch
  /\ \E res \in IndexSearch(flat_corpus_embs,
                            Slice(flat_query_embs, NextFlatI * args.batch,
                                  (NextFlatI + 1) * args.batch),
                            args.topk) :
       /\ Distance' = Append(Distance, res.D)
       /\ Index' = Append(Index, res.I)
  /\ flat_i' = << NextFlatI >>
  /\ UNCHANGED << pc, error, flat_query_embs, flat_corpus_embs >>
  /\ FlatUnchanged

\* lines 48-52: the rest of the queries, after the loop
FlatTail ==
  /\ pc = "flat_loop"
  /\ NextFlatI >= Len(flat_query_embs) \div args.batch
  /\ IF flat_i = << >>
     THEN Raise("UnboundLocalError")
     ELSE /\ \E res \in IndexSearch(flat_corpus_embs,
                                    Slice(flat_query_embs,
                                          (flat_i[1] + 1) * args.batch,
                                          Len(flat_query_embs)),
                                    args.topk) :
               /\ Distance' = Append(Distance, res.D)
               /\ Index' = Append(Index, res.I)
          /\ pc' = "flat_concat"
          /\ UNCHANGED << error, flat_query_embs, flat_corpus_embs, flat_i >>
          /\ FlatUnchanged

\* lines 54-58: concatenate the batches and return
FlatReturn ==
  /\ pc = "flat_concat"
  /\ Distance' = Concat(Distance)
  /\ Index' = Concat(Index)
  /\ pc' = "flat_done"
  /\ UNCHANGED << error, flat_query_embs, flat_corpus_embs, flat_i >>
  /\ FlatUnchanged

NextFlat ==
  \/ FlatStart
  \/ FlatBatch
  \/ FlatTail
  \/ FlatReturn

SpecFlat == InitFlat /\ [][NextFlat]_vars

\* --------------------------------------------------------- sharded loading
\* One run of main per shard over the same index file (--total_shrad runs,
\* --shrad 0, 1, ...), each with --brute_force: the run loads its slice
\* (lines 289-306), searches it, writes its ranking file and ends, normally
\* or with an exception.  shard_log records the slice each run worked on.
MaxCorpusLen == 6
MaxShards == 4

\* The pickled index of n items: item p has vector <<p, p + 1>>, argument
\* index <<p % 2>> (or none) and doc id p.
Pickle(n, has_arg) ==
  [embs   |-> [p \in 1..n |-> << p, p + 1 >>],
   args   |-> IF has_arg THEN [p \in 1..n |-> << p % 2 >>] ELSE None,
   docids |-> [p \in 1..n |-> p]]

\* The command line of the run of shard s.
ShardArgs(total, s, k) ==
  [ theta       |-> MaxTheta,
    topk        |-> k,
    agip_topk   |-> 1,
    emb_dim     |-> 1,
    IP          |-> FALSE,
    PQIP        |-> FALSE,
    brute_force |-> TRUE,
    rerank      |-> FALSE,
    lamda       |-> 1,
    total_shrad |-> total,
    shrad       |-> s,
    batch       |-> 1,
    faiss_pq_index_path |-> NoPath ]

InitShard ==
  \E n \in 0..MaxCorpusLen, total \in 1..MaxShards, has_arg \in BOOLEAN,
     k \in 1..MaxTopk :
    /\ args = ShardArgs(total, 0, k)
    /\ query_embs = << << 1, 1 >> >>
    /\ query_arg_idxs = << << 1 >> >>
    /\ qids = << 1 >>
    /\ index_pickle = Pickle(n, has_arg)
    /\ corpus_embs = Pickle(n, has_arg).embs
    /\ corpus_arg_idxs = Pickle(n, has_arg).args
    /\ docids = Pickle(n, has_arg).docids
    /\ shard_log = << >>
    /\ pc = "load"
    /\ error = ""
    /\ q_args = None
    /\ c_args = None
    /\ i = 0
    /\ important_idx = << >>
    /\ partial_scores = << >>
    /\ candidates = << >>
    /\ scores = << >>
    /\ all_results = << >>
    /\ all_scores = << >>
    /\ w = 0
    /\ fout = << >>
    /\ selected = << >>
    /\ PQIdle /\ FlatIdle

\* The run of shard args.shrad is over (lines 343-345, or an uncaught
\* exception); unless it was the last one, the run of the next shard starts
\* as a new process: it parses --shrad and unpickles the same files (lines
\* 253, 266, 290), and nothing of the run before is left but its file.
ShardRunEnds ==
  /\ pc \in {"done", "error"}
  /\ Len(shard_log) = args.shrad
  /\ shard_log' = Append(shard_log,
                         [embs |-> corpus_embs, args |-> corpus_arg_idxs,
                          docids |-> docids])
  /\ IF args.shrad = args.total_shrad - 1
     THEN UNCHANGED << args, query_embs, corpus_embs, corpus_arg_idxs,
                       docids, pc, error, q_args, c_args, i, scores,
                       all_results, all_scores, w, fout >>
     ELSE /\ args' = ShardArgs(args.total_shrad, args.shrad + 1, args.topk)
          /\ query_embs' = << << 1, 1 >> >>
          /\ corpus_embs' = index_pickle.embs
          /\ corpus_arg_idxs' = index_pickle.args
          /\ docids' = index_pickle.docids
          /\ pc' = "load"
          /\ error' = ""
          /\ q_args' = None
          /\ c_args' = None
          /\ i' = 0
          /\ scores' = << >>
          /\ all_results' = << >>
          /\ all_scores' = << >>
          /\ w' = 0
          /\ fout' = << >>
  /\ UNCHANGED << query_arg_idxs, qids, important_idx, partial_scores,
                  candidates, selected, pq, index_pickle, flat >>

NextShard ==
  \/ Load
  \/ EnterGIP
  \/ GIPBruteForce
  \/ Return
  \/ WriteQuery
  \/ Finish
  \/ ShardRunEnds

SpecShard == InitShard /\ [][NextShard]_vars

\* --------------------------------------------------------- PQ_IP_retrieval
\* Runs of main with --PQIP among the options.  The index file was built
\* offline over the vectors of the index pickle; product quantization keeps
\* an approximation of each vector, here its values rounded down to even.
\* Options a branch never reads are left at one value.
\*
\* PQ_IP_retrieval reads the module global faiss (line 170), which the file
\* never binds: main's "import faiss" (line 325) binds a local of main.  So
\* every run starts with flat_globals = FALSE and a --PQIP run ends at line
\* 170; faiss is taken to be installed, so line 325 itself succeeds.
Quantize(v) == [j \in 1..Len(v) |-> 2 * (v[j] \div 2)]

PQQuerySnapshots ==
  LET q1 == [emb |-> <<1, 2, 3>>,  arg |-> <<0, 0, 1>>]
      q2 == [emb |-> <<1, 0, -1>>, arg |-> <<1, 0, 0>>]
      q3 == [emb |-> <<2, 2, 0>>,  arg |-> <<0, 1, 1>>]
  IN  { << q1 >>, << q1, q2 >>, << q2, q1 >>, << q1, q2, q3 >>,
        << q3, q1, q2 >>, << q1, q1, q3 >> }

ArgsSpacePQ ==
  { a \in [ theta       : 0..MaxTheta,
            topk        : 1..MaxTopk,
            agip_topk   : 1..MaxAgipTopk,
            emb_dim     : EmbDims,
            IP          : BOOLEAN,
            PQIP        : BOOLEAN,
            brute_force : {FALSE},
            rerank      : BOOLEAN,
            lamda       : {1},
            total_shrad : {1},
            shrad       : {0},
            batch       : 1..MaxBatch,
            faiss_pq_index_path : {NoPath, PQPath} ] :
      /\ a.PQIP => (a.theta = MaxTheta /\ ~a.IP)
      /\ ~a.PQIP => (a.batch = 1 /\ a.faiss_pq_index_path = NoPath) }

InitPQ ==
  \E a \in ArgsSpacePQ, qs \in PQQuerySnapshots, ds \in Corpora,
     q_has_arg \in BOOLEAN :
    LET width == Min2(a.emb_dim, Len(qs[1].emb))
    IN
    /\ args = a
    /\ query_embs = [k \in 1..Len(qs) |-> qs[k].emb]
    /\ query_arg_idxs =
         IF q_has_arg
         THEN [k \in 1..Len(qs) |-> SubSeq(qs[k].arg, 1, width)]
         ELSE None
    /\ qids = [k \in 1..Len(qs) |-> k]
    /\ corpus_embs = [n \in 1..Len(ds) |-> ds[n].emb]
    /\ corpus_arg_idxs = [n \in 1..Len(ds) |-> SubSeq(ds[n].arg, 1, width)]
    /\ docids = [n \in 1..Len(ds) |-> n]
    /\ pq_index_file = [n \in 1..Len(ds) |-> Quantize(ds[n].emb)]
    /\ faiss_index = << >>
    /\ batch_i = 0
    /\ pc = "load"
    /\ error = ""
    /\ q_args = None
    /\ c_args = None
    /\ i = 0
    /\ important_idx = << >>
    /\ partial_scores = << >>
    /\ candidates = << >>
    /\ scores = << >>
    /\ all_results = << >>
    /\ all_scores = << >>
    /\ w = 0
    /\ fout = << >>
    /\ selected = << >>
    /\ ShardIdle /\ FlatIdle

PQUnchanged ==
  UNCHANGED << data, important_idx, partial_scores, w, fout, selected,
               pq_index_file, shard, flat >>

\* main lines 324-326 and PQ_IP_retrieval lines 168-188: the path must be
\* given (line 168) and the name faiss must be a module global (line 170);
\* then the index is read and both argument indices get the semantic
\* columns appended (value 1).
EnterPQ ==
  /\ pc = "dispatch"
  /\ query_arg_idxs # None
  /\ args.PQIP
  /\ IF args.faiss_pq_index_path = NoPath
     THEN Raise("AssertionError")
     ELSE IF ~flat_globals
     THEN Raise("NameError")
     ELSE /\ faiss_index' = pq_index_file
          /\ LET cls_dim == Shape1(query_embs) - Shape1(query_arg_idxs)
             IN  /\ q_args' = IF cls_dim > 0
                              THEN Pad(query_arg_idxs, cls_dim)
                              ELSE query_arg_idxs
                 /\ c_args' = IF cls_dim > 0
                              THEN Pad(corpus_arg_idxs, cls_dim)
                              ELSE corpus_arg_idxs
          /\ pc' = "pq_search"
          /\ UNCHANGED << args, error, i, batch_i, candidates, scores,
                          all_results, all_scores >>
          /\ PQUnchanged

\* The rest of PQ_IP_retrieval, lines 185-231.  No run of the file gets
\* here (line 170 raises first), so the actions below (PQSearch, PQQuery,
\* PQNextBatch, PQReturn) are steps of no specification: they say what the
\* lines would do once the index is read.

\* lines 185-188
TotalBatch ==
  IF Len(query_embs) % args.batch = 0
  THEN Len(query_embs) \div args.batch
  ELSE (Len(query_embs) \div args.batch) + 1

\* lines 193-200: where the batch of the outer loop starts and ends
BatchLo == batch_i * args.batch
BatchHi ==
  IF batch_i = TotalBatch - 1
  THEN Len(query_embs)
  ELSE (batch_i + 1) * args.batch

\* lines 191-202: the next batch is sliced and searched in the index
PQSearch ==
  /\ pc = "pq_search"
  /\ batch_i < TotalBatch
  /\ \E res \in IndexSearch(faiss_index, Slice(query_embs, BatchLo, BatchHi),
                            args.agip_topk) :
       /\ scores' = res.D
       /\ candidates' = res.I
  /\ i' = 0
  /\ pc' = "pq_query"
  /\ UNCHANGED << args, error, q_args, c_args, faiss_index, batch_i,
                  all_results, all_scores >>
  /\ PQUnchanged

\* lines 205-221: one query of the batch (i counts the queries taken)
PQQuery ==
  /\ pc = "pq_query"
  /\ i < Len(candidates)
  /\ LET qid == Slice(qids, BatchLo, BatchHi)[i + 1]
         query_emb == Slice(query_embs, BatchLo, BatchHi)[i + 1]
         query_arg_idx == Slice(q_args, BatchLo, BatchHi)[i + 1]
         candidate == candidates[i + 1]
     IN  IF args.rerank
         THEN IF \E n \in 1..Len(candidate) :
                    ~InRange(corpus_embs, candidate[n])
              THEN Raise("IndexError")
              ELSE
              LET sc == GIPScores(PyGather(c_args, candidate),
                                  PyGather(corpus_embs, candidate),
                                  query_arg_idx, query_emb)
              IN  IF TopkRaises(sc, args.topk)
                  THEN Raise(TopkError)
                  ELSE \E sort_idx \in Topk(sc, args.topk) :
                         /\ scores' = sc
                         /\ all_scores' = DictPut(all_scores, qid,
                                                  Gather(sc, sort_idx))
                         /\ all_results' =
                              DictPut(all_results, qid,
                                      NumpyGather(candidate, sort_idx))
                         /\ i' = i + 1
                         /\ UNCHANGED << args, pc, error, q_args, c_args,
                                         faiss_index, batch_i, candidates >>
                         /\ PQUnchanged
         ELSE /\ all_scores' = DictPut(all_scores, qid,
                                       Slice(scores[i + 1], 0, args.topk))
              /\ all_results' = DictPut(all_results, qid,
                                        Slice(candidate, 0, args.topk))
              /\ i' = i + 1
              /\ UNCHANGED << args, pc, error, q_args, c_args, faiss_index,
                              batch_i, candidates, scores >>
              /\ PQUnchanged

\* line 191: the batch is over, the outer loop goes on
PQNextBatch ==
  /\ pc = "pq_query"
  /\ i = Len(candidates)
  /\ batch_i' = batch_i + 1
  /\ pc' = "pq_search"
  /\ UNCHANGED << args, error, q_args, c_args, i, faiss_index, candidates,
                  scores, all_results, all_scores >>
  /\ PQUnchanged

\* lines 228-231 and main lines 330-333: the dictionaries are returned and
\* the ranking file is opened.
PQReturn ==
  /\ pc = "pq_search"
  /\ batch_i = TotalBatch
  /\ pc' = "write"
  /\ UNCHANGED << args, error, q_args, c_args, i, faiss_index, batch_i,
                  candidates, scores, all_results, all_scores >>
  /\ PQUnchanged

NextPQ ==
  \/ Load
  \/ EnterIP
  \/ IPQuery
  \/ EnterGIP
  \/ GIPBruteForce
  \/ GIPApprox
  \/ GIPRerank
  \/ Return
  \/ EnterPQ
  \/ WriteQuery
  \/ Finish

SpecPQ == InitPQ /\ [][NextPQ]_vars

\* ------------------------------------------------------- the padding step
\* Runs of main up to the padding of the argument indices, over snapshots
\* whose argument indices have any width up to the dimension of the vectors
\* and with any --emb_dim: the width belongs to the files, --emb_dim to the
\* command line (default 768), and nothing in main compares the two.
MaxEmbDim == 4

ArgsSpacePad ==
  [ theta       : {MaxTheta},
    topk        : {1},
    agip_topk   : {1},
    emb_dim     : 1..MaxEmbDim,
    IP          : {FALSE},
    PQIP        : BOOLEAN,
    brute_force : BOOLEAN,
    rerank      : {FALSE},
    lamda       : {1},
    total_shrad : {1},
    shrad       : {0},
    batch       : {1},
    faiss_pq_index_path : {NoPath, PQPath} ]

InitPad ==
  \E a \in ArgsSpacePad, qs \in PQQuerySnapshots, ds \in Corpora :
    \E width \in 1..Len(qs[1].emb) :
      /\ args = a
      /\ query_embs = [k \in 1..Len(qs) |-> qs[k].emb]
      /\ query_arg_idxs = [k \in 1..Len(qs) |-> SubSeq(qs[k].arg, 1, width)]
      /\ qids = [k \in 1..Len(qs) |-> k]
      /\ corpus_embs = [n \in 1..Len(ds) |-> ds[n].emb]
      /\ corpus_arg_idxs =
           [n \in 1..Len(ds) |-> SubSeq(ds[n].arg, 1, width)]
      /\ docids = [n \in 1..Len(ds) |-> n]
      /\ pq_index_file = [n \in 1..Len(ds) |-> Quantize(ds[n].emb)]
      /\ faiss_index = << >>
      /\ batch_i = 0
      /\ pc = "load"
      /\ error = ""
      /\ q_args = None
      /\ c_args = None
      /\ i = 0
      /\ important_idx = << >>
      /\ partial_scores = << >>
      /\ candidates = << >>
      /\ scores = << >>
      /\ all_results = << >>
      /\ all_scores = << >>
      /\ w = 0
      /\ fout = << >>
      /\ selected = << >>
      /\ ShardIdle /\ FlatIdle

NextPad ==
  \/ Load
  \/ EnterGIP
  \/ EnterPQ

SpecPad == InitPad /\ [][NextPad]_vars

\* ------------------------------------------- one run of main over one shard
\* Runs of main with any --lamda, --total_shrad and --shrad, in every mode.
\* The PQ index file is the one built over the vectors of the whole index
\* pickle.  Options a branch never reads are left at one value.
MaxLamda == 2
MaxRunShards == 2

RunQuerySnapshots == { qs \in PQQuerySnapshots : Len(qs) <= 2 }

ArgsSpaceRun ==
  { a \in [ theta       : 0..MaxTheta,
            topk        : 1..MaxTopk,
            agip_topk   : 1..MaxAgipTopk,
            emb_dim     : EmbDims,
            IP          : {FALSE},
            PQIP        : BOOLEAN,
            brute_force : {FALSE},
            rerank      : BOOLEAN,
            lamda       : 1..MaxLamda,
            total_shrad : 1..MaxRunShards,
            shrad       : 0..(MaxRunShards - 1),
            batch       : {1},
            faiss_pq_index_path : {PQPath} ] :
      /\ a.shrad < a.total_shrad
      /\ a.PQIP => a.theta = MaxTheta
      /\ (~a.PQIP /\ ~(a.rerank /\ a.theta # 0)) => a.agip_topk = 1 }

InitRun ==
  \E a \in ArgsSpaceRun, qs \in RunQuerySnapshots, ds \in Corpora,
     q_has_arg \in BOOLEAN :
    LET width == Min2(a.emb_dim, Len(qs[1].emb))
    IN
    /\ args = a
    /\ query_embs = [k \in 1..Len(qs) |-> qs[k].emb]
    /\ query_arg_idxs =
         IF q_has_arg
         THEN [k \in 1..Len(qs) |-> SubSeq(qs[k].arg, 1, width)]
         ELSE None
    /\ qids = [k \in 1..Len(qs) |-> k]
    /\ corpus_embs = [n \in 1..Len(ds) |-> ds[n].emb]
    /\ corpus_arg_idxs = [n \in 1..Len(ds) |-> SubSeq(ds[n].arg, 1, width)]
    /\ docids = [n \in 1..Len(ds) |-> n]
    /\ pq_index_file = [n \in 1..Len(ds) |-> Quantize(ds[n].emb)]
    /\ faiss_index = << >>
    /\ batch_i = 0
    /\ index_pickle = [embs   |-> [n \in 1..Len(ds) |-> ds[n].emb],
                       args   |-> [n \in 1..Len(ds) |->
                                     SubSeq(ds[n].arg, 1, width)],
                       docids |-> [n \in 1..Len(ds) |-> n]]
    /\ shard_log = << >>
    /\ pc = "load"
    /\ error = ""
    /\ q_args = None
    /\ c_args = None
    /\ i = 0
    /\ important_idx = << >>
    /\ partial_scores = << >>
    /\ candidates = << >>
    /\ scores = << >>
    /\ all_results = << >>
    /\ all_scores = << >>
    /\ w = 0
    /\ fout = << >>
    /\ selected = << >>
    /\ FlatIdle

SpecRun == InitRun /\ [][NextPQ]_vars

\* ================================================================= claims
Range(f) == { f[x] : x \in DOMAIN f }

\* The gated sum of the claims, one dimension at a time:
\* sum over j <= n of c[j]*q[j] where c_arg[j] = q_arg[j].
RECURSIVE GatedSumTo(_, _, _, _, _)
GatedSumTo(q, q_arg, c, c_arg, n) ==
  IF n = 0 THEN 0
  ELSE (IF c_arg[n] = q_arg[n] THEN c[n] * q[n] ELSE 0)
       + GatedSumTo(q, q_arg, c, c_arg, n - 1)

\* Exact GIP score of corpus row r (1-based) for query k (1-based).
ExactGIP(k, r) ==
  GatedSumTo(query_embs[k], q_args[k], corpus_embs[r], c_args[r],
             Len(query_embs[k]))

\* Plain dot product, one dimension at a time.
RECURSIVE DotTo(_, _, _)
DotTo(a, b, n) == IF n = 0 THEN 0 ELSE a[n] * b[n] + DotTo(a, b, n - 1)

PlainIP(k, r) == DotTo(query_embs[k], corpus_embs[r], Len(query_embs[k]))

\* result/score list the k best of the positions in pool (0-based) by value
\* val(p): distinct positions of pool, each with its value, values
\* non-increasing, and no position left out has a larger value than the last.
IsTopOf(result, score, pool, val(_), k) ==
  /\ Len(result) = k
  /\ Len(score) = k
  /\ \A n \in 1..k : result[n] \in pool /\ score[n] = val(result[n])
  /\ \A a, b \in 1..k : a < b => result[a] # result[b] /\ score[a] >= score[b]
  /\ \A p \in pool :
       p \notin Range(result) => \A n \in 1..k : score[n] >= val(p)

AllDocs == 0..(Len(corpus_embs) - 1)

\* GIP_retrieval was entered (the query snapshot carries an argument index)
RanGIP == pc \in {"gip", "write", "done", "error"} /\ query_arg_idxs # None
RanIP == pc \in {"ip", "write", "done"} /\ query_arg_idxs = None

\* Queries 1..i have a recorded result.
Recorded == { k \in 1..Len(qids) : k <= i }

\* ---------------------------------------------------------------------- C1
\* C1: in brute-force GIP mode (theta = 0 or brute_force), the score computed
\* for every corpus item c is the sum over the dimensions j where
\* cArg[j] = qArg[j] of c[j]*q[j]; q=[1,2,3], qArg=[0,0,1], c=[1,1,1],
\* cArg=[0,1,1] gives 4; the scores returned are those of the ranked items.
C1_BruteForceScoreIsGatedSum ==
  (RanGIP /\ args.theta = 0 /\ i >= 1) =>
     /\ Len(scores) = Len(corpus_embs)
     /\ \A r \in 1..Len(corpus_embs) :
          /\ scores[r] = ExactGIP(i, r)
          /\ (/\ query_embs[i] = <<1, 2, 3>> /\ q_args[i] = <<0, 0, 1>>
              /\ corpus_embs[r] = <<1, 1, 1>> /\ c_args[r] = <<0, 1, 1>>)
             => scores[r] = 4
     /\ \A k \in Recorded :
          \A n \in 1..Len(all_results[qids[k]]) :
             all_scores[qids[k]][n] = ExactGIP(k, all_results[qids[k]][n] + 1)

C1_Witness ==
  /\ RanGIP /\ args.theta = 0 /\ i >= 1
  /\ query_embs[i] = <<1, 2, 3>> /\ q_args[i] = <<0, 0, 1>>
  /\ \E r \in 1..Len(corpus_embs) :
       /\ corpus_embs[r] = <<1, 1, 1>> /\ c_args[r] = <<0, 1, 1>>
       /\ scores[r] = 4

\* ---------------------------------------------------------------------- C2
\* C2: in every mode, every recorded result has at most topk entries, as
\* many scores as entries, and scores non-increasing by rank.
C2_AtMostTopkNonIncreasing ==
  \A k \in Recorded :
     LET result == all_results[qids[k]]
         score == all_scores[qids[k]]
     IN  /\ Len(result) <= args.topk
         /\ Len(score) = Len(result)
         /\ \A a, b \in 1..Len(score) : a < b => score[a] >= score[b]

C2_Witness ==
  /\ pc = "done" /\ RanGIP /\ args.theta # 0 /\ args.rerank /\ args.IP
  /\ \E k \in Recorded :
       /\ Len(all_scores[qids[k]]) = 2
       /\ all_scores[qids[k]][1] > all_scores[qids[k]][2]

\* ---------------------------------------------------------------------- C3
\* C3: with no query argument index main runs plain inner-product retrieval
\* (never GIP_retrieval), and every recorded result is the first
\* min(topk, N) corpus indices by dot(query, corpus[i]) descending, with
\* those dot products as scores.  In the scenario of 2 queries, 4 corpus
\* items, D = 2 and topk = 2 the dot products are 1,2,3,1 and 2,-1,1,7, so
\* the results are [2,1] with scores [3,2] and [3,0] with scores [7,2].
C3_NoArgIndexIsPlainIP ==
  (query_arg_idxs = None) =>
     /\ pc \notin {"gip", "error"}
     /\ \A k \in Recorded :
          IsTopOf(all_results[qids[k]], all_scores[qids[k]], AllDocs,
                  LAMBDA p : PlainIP(k, p + 1),
                  Min2(args.topk, Len(corpus_embs)))
     /\ (/\ corpus_embs = << <<1, 0>>, <<0, 1>>, <<1, 1>>, <<3, -1>> >>
         /\ query_embs = << <<1, 2>>, <<2, -1>> >>
         /\ args.topk = 2) =>
           /\ 1 \in Recorded =>
                 /\ all_results[qids[1]] = <<2, 1>>
                 /\ all_scores[qids[1]] = <<3, 2>>
           /\ 2 \in Recorded =>
                 /\ all_results[qids[2]] = <<3, 0>>
                 /\ all_scores[qids[2]] = <<7, 2>>

C3_Witness ==
  /\ pc = "done" /\ RanIP /\ args.topk = 2 /\ args.brute_force /\ args.rerank
  /\ corpus_embs = << <<1, 0>>, <<0, 1>>, <<1, 1>>, <<3, -1>> >>
  /\ query_embs = << <<1, 2>>, <<2, -1>> >>
  /\ all_results[qids[1]] = <<2, 1>>
  /\ all_scores[qids[2]] = <<7, 2>>

\* ---------------------------------------------------------------------- C4
\* {j : query[j] > theta}, as 0-based dimensions
ImportantSet(q, theta) == { j - 1 : j \in { d \in 1..Len(q) : q[d] > theta } }

\* C4: when no value of a query exceeds theta (theta > 0, theta-pruned
\* selector), the query is scored over every dimension, so its result is the
\* brute-force GIP result: the topk best of the corpus by exact GIP score.
C4_EmptyImportantSetFallsBack ==
  (RanGIP /\ args.theta # 0 /\ ~args.IP /\ pc # "error") =>
     \A k \in Recorded :
        ImportantSet(query_embs[k], args.theta) = {} =>
           IsTopOf(all_results[qids[k]], all_scores[qids[k]], AllDocs,
                   LAMBDA p : ExactGIP(k, p + 1), args.topk)

\* ---------------------------------------------------------------------- C5
\* C5: in rerank mode with agip_topk < topk (and a shortlist that the corpus
\* can fill), every query completes and its result is the shortlist,
\* agip_topk entries.
C5_ShortShortlistTruncates ==
  (/\ RanGIP /\ args.theta # 0 /\ args.rerank
   /\ args.agip_topk < args.topk
   /\ args.agip_topk <= Len(corpus_embs)) =>
     /\ pc # "error"
     /\ \A k \in Recorded : Len(all_results[qids[k]]) = args.agip_topk

\* ---------------------------------------------------------------------- C6
\* C6: in rerank mode (theta > 0, rerank on) the shortlist is the agip_topk
\* best of the corpus by approximate score, the result is the topk best of
\* the shortlist by exact GIP score (all dimensions), and every returned
\* score is the exact GIP score of its candidate.
C6_RerankExactOnShortlist ==
  (RanGIP /\ args.theta # 0 /\ args.rerank /\ i >= 1) =>
     /\ IsTopOf(candidates, Gather(partial_scores, candidates), AllDocs,
                LAMBDA p : partial_scores[p + 1], args.agip_topk)
     /\ IsTopOf(all_results[qids[i]], all_scores[qids[i]], Range(candidates),
                LAMBDA p : ExactGIP(i, p + 1), args.topk)
     /\ \A k \in Recorded :
          \A n \in 1..Len(all_results[qids[k]]) :
             all_scores[qids[k]][n] = ExactGIP(k, all_results[qids[k]][n] + 1)

C6_Witness ==
  /\ RanGIP /\ args.theta # 0 /\ args.rerank /\ i >= 1
  /\ args.agip_topk < Len(corpus_embs)
  /\ \E r \in 1..Len(corpus_embs) : partial_scores[r] # ExactGIP(i, r)
  /\ \E n \in 1..Len(all_results[qids[i]]) :
       LET c == all_results[qids[i]][n]
       IN  /\ c \in Range(candidates)
           /\ partial_scores[c + 1] # all_scores[qids[i]][n]

\* ---------------------------------------------------------------------- C7
\* The shortlist of the last query holds topk items that no corpus item left
\* out of them beats by exact GIP score (a true top-K of the whole corpus).
ContainsTrueTopK ==
  \E T \in SUBSET Range(candidates) :
     /\ Cardinality(T) = args.topk
     /\ \A t \in T : \A p \in AllDocs \ T :
           ExactGIP(i, t + 1) >= ExactGIP(i, p + 1)

\* C7: whenever the shortlist contains a true top-K, the reranked result is
\* the brute-force answer: the topk best of the whole corpus by exact GIP
\* score, with those scores (and so also the topk best of the shortlist).
C7_RerankIdempotent ==
  (/\ RanGIP /\ args.theta # 0 /\ args.rerank /\ i >= 1
   /\ ContainsTrueTopK) =>
     /\ IsTopOf(all_results[qids[i]], all_scores[qids[i]], AllDocs,
                LAMBDA p : ExactGIP(i, p + 1), args.topk)
     /\ Range(all_results[qids[i]]) \subseteq Range(candidates)

C7_Witness ==
  /\ RanGIP /\ args.theta # 0 /\ args.rerank /\ i >= 1
  /\ ContainsTrueTopK
  /\ args.agip_topk < Len(corpus_embs)
  /\ args.topk < args.agip_topk
  /\ candidates[1] # 0
  /\ all_results[qids[i]][1] # candidates[1]

\* ---------------------------------------------------------------------- C8
\* C8: for one query and thresholds theta1 <= theta2, the dimensions selected
\* at theta2 are a subset of those selected at theta1 and no more numerous;
\* the dimensions selected at theta are those with query[j] > theta.
C8_ThetaMonotone ==
  /\ \A t \in DOMAIN selected :
        /\ Range(selected[t]) = ImportantSet(query_embs[1], t)
        /\ Len(selected[t]) = Cardinality(ImportantSet(query_embs[1], t))
  /\ \A t1, t2 \in DOMAIN selected :
        t1 <= t2 =>
           /\ Len(selected[t2]) <= Len(selected[t1])
           /\ Range(selected[t2]) \subseteq Range(selected[t1])

C8_Witness ==
  \E t1, t2 \in DOMAIN selected :
     /\ t1 < t2
     /\ Len(selected[t2]) >= 1
     /\ Len(selected[t2]) < Len(selected[t1])

\* ---------------------------------------------------------------------- C9
\* C9: brute_force forces theta to 0, and at theta = 0, whether brute_force
\* is set or not and whatever the IP and rerank flags, every recorded result
\* is the brute-force one: the topk best of the corpus by exact GIP score
\* over all dimensions (zero and negative query values included).
C9_ThetaZeroIsBruteForce ==
  RanGIP =>
     /\ args.brute_force => args.theta = 0
     /\ (args.theta = 0 /\ pc # "error") =>
           \A k \in Recorded :
              IsTopOf(all_results[qids[k]], all_scores[qids[k]], AllDocs,
                      LAMBDA p : ExactGIP(k, p + 1), args.topk)

C9_Witness ==
  /\ pc = "done" /\ RanGIP
  /\ ~args.brute_force /\ args.theta = 0 /\ args.IP /\ args.rerank
  /\ \E k \in Recorded : \E n \in 1..Len(all_results[qids[k]]) :
       /\ query_embs[k] = <<1, 0, -1>>
       /\ q_args[k] = <<1, 0, 0>>
       /\ corpus_embs[all_results[qids[k]][n] + 1] = <<3, 0, 2>>
       /\ all_scores[qids[k]][n] = 1

\* --------------------------------------------------------------------- C10
\* C10: no written row pairs a query id with the same doc id, and every
\* other ranked candidate of a written query has its row.
C10_SelfHitExcluded ==
  /\ \A m \in 1..Len(fout) : fout[m].docid # fout[m].query_id
  /\ \A k \in 1..w :
        \A n \in 1..Len(all_results[qids[k]]) :
           LET d == docids[all_results[qids[k]][n] + 1]
           IN  d # qids[k] =>
                 \E m \in 1..Len(fout) :
                    fout[m].query_id = qids[k] /\ fout[m].docid = d

C10_Witness ==
  /\ pc = "done"
  /\ \E k \in 1..w :
       /\ Len(all_results[qids[k]]) = 2
       /\ docids[all_results[qids[k]][1] + 1] = qids[k]
       /\ \E m \in 1..Len(fout) :
            /\ fout[m].query_id = qids[k]
            /\ fout[m].docid = docids[all_results[qids[k]][2] + 1]

\* --------------------------------------------------------------------- C11
\* C11: the rows of one query are written in descending-score order; the
\* rank of a row is the 1-based position of its candidate in the ranked list
\* before the self-hit filter (ranks are not renumbered, so they may skip a
\* number), and the score of a row is the score at that position.
C11_RanksBeforeFilter ==
  /\ \A m \in 1..Len(fout) :
        LET row == fout[m]
        IN  /\ row.rank \in 1..Len(all_results[row.query_id])
            /\ row.docid = docids[all_results[row.query_id][row.rank] + 1]
            /\ row.score = all_scores[row.query_id][row.rank]
  /\ \A m \in 1..(Len(fout) - 1) :
        fout[m].query_id = fout[m + 1].query_id =>
           /\ fout[m].rank < fout[m + 1].rank
           /\ fout[m].score >= fout[m + 1].score

C11_Witness ==
  /\ pc = "done"
  /\ \E k \in 1..w :
       /\ Len(all_results[qids[k]]) = 2
       /\ docids[all_results[qids[k]][1] + 1] = qids[k]
       /\ \E m \in 1..Len(fout) :
            fout[m].query_id = qids[k] /\ fout[m].rank = 2
       /\ \A m \in 1..Len(fout) :
            fout[m].query_id = qids[k] => fout[m].rank # 1

\* --------------------------------------------------------------------- C15
\* The gated sum restricted to the dimensions whose query value exceeds
\* theta, one dimension at a time.
RECURSIVE PrunedSumTo(_, _, _, _, _, _)
PrunedSumTo(q, q_arg, c, c_arg, theta, n) ==
  IF n = 0 THEN 0
  ELSE (IF q[n] > theta /\ c_arg[n] = q_arg[n] THEN c[n] * q[n] ELSE 0)
       + PrunedSumTo(q, q_arg, c, c_arg, theta, n - 1)

PrunedGIP(k, r) ==
  PrunedSumTo(query_embs[k], q_args[k], corpus_embs[r], c_args[r],
              args.theta, Len(query_embs[k]))

\* C15: in theta-pruned mode (theta > 0, IP-only off) the important
\* dimensions of a query are exactly {j : query[j] > theta}; the partial
\* score of every corpus item is the sum over only those j of c[j]*query[j]
\* where cArg[j] = qArg[j]; with rerank off that partial score is the score
\* returned for the top-K candidates.
C15_PrunedPartialScore ==
  (RanGIP /\ args.theta # 0 /\ ~args.IP /\ i >= 1) =>
     /\ Range(important_idx) = ImportantSet(query_embs[i], args.theta)
     /\ Len(important_idx) = Cardinality(Range(important_idx))
     /\ Len(partial_scores) = Len(corpus_embs)
     /\ \A r \in 1..Len(corpus_embs) : partial_scores[r] = PrunedGIP(i, r)
     /\ ~args.rerank =>
          \A k \in Recorded :
             IsTopOf(all_results[qids[k]], all_scores[qids[k]], AllDocs,
                     LAMBDA p : PrunedGIP(k, p + 1), args.topk)

C15_Witness ==
  /\ pc = "done" /\ RanGIP /\ args.theta = 1 /\ ~args.IP /\ ~args.rerank
  /\ \E k \in Recorded : \E n \in 1..Len(all_results[qids[k]]) :
       LET r == all_results[qids[k]][n] + 1
       IN  /\ query_embs[k] = <<1, 2, 3>> /\ q_args[k] = <<0, 0, 1>>
           /\ corpus_embs[r] = <<1, 1, 1>> /\ c_args[r] = <<0, 1, 1>>
           /\ all_scores[qids[k]][n] = 3
           /\ ExactGIP(k, r) = 4

\* --------------------------------------------------------------------- C16
\* C16: with the IP-only approximation enabled and theta > 0, the partial
\* score of every corpus item is the plain inner product with the query over
\* all dimensions, whatever the argument indices and the theta-selected
\* dimensions; with rerank on, the shortlist is the agip_topk best of the
\* corpus by that score.
C16_IPOnlyPartialScore ==
  (RanGIP /\ args.theta # 0 /\ args.IP /\ i >= 1) =>
     /\ Len(partial_scores) = Len(corpus_embs)
     /\ \A r \in 1..Len(corpus_embs) : partial_scores[r] = PlainIP(i, r)
     /\ args.rerank =>
          IsTopOf(candidates, Gather(partial_scores, candidates), AllDocs,
                  LAMBDA p : PlainIP(i, p + 1), args.agip_topk)

C16_Witness ==
  /\ pc = "done" /\ RanGIP /\ args.theta = 1 /\ args.IP /\ args.rerank
  /\ query_embs[i] = <<1, 2, 3>> /\ q_args[i] = <<0, 0, 1>>
  /\ Len(candidates) = 2
  /\ \E r \in 1..Len(corpus_embs) :
       /\ corpus_embs[r] = <<1, 1, 1>> /\ c_args[r] = <<0, 1, 1>>
       /\ partial_scores[r] = 6
       /\ PrunedGIP(i, r) = 3

\* --------------------------------------------------------------------- C20
\* The padding dimensions of GIP_retrieval: the columns after emb_dim.
PadDims == (args.emb_dim + 1)..Shape1(query_embs)

\* Ungated sum of c[j]*q[j] over the dimensions lo..hi.
RECURSIVE TailSum(_, _, _, _)
TailSum(q, c, lo, hi) ==
  IF hi < lo THEN 0 ELSE c[hi] * q[hi] + TailSum(q, c, lo, hi - 1)

\* The gated sum of query k and corpus row r over the lexical dimensions.
LexicalGIP(k, r) ==
  GatedSumTo(query_embs[k], q_args[k], corpus_embs[r], c_args[r],
             args.emb_dim)

\* C20 (as stated): padding dimensions are filled with the sentinel id 1 so
\* that they never match: on a padding dimension the gate between a query
\* and a candidate never opens because of the padding value, so a padding
\* dimension adds nothing to a GIP score.
C20_PaddingNeverMatches ==
  (RanGIP /\ PadDims # {} /\ args.theta = 0 /\ i >= 1) =>
     \A r \in 1..Len(corpus_embs) :
        /\ \A j \in PadDims : q_args[i][j] # c_args[r][j]
        /\ scores[r] = LexicalGIP(i, r)

\* C20 (amended): padding dimensions are filled with the same id 1 on the
\* query side and on the corpus side, so on a padding dimension the gate of
\* every query and every candidate is open: each padding dimension j adds
\* c[j]*q[j] to the GIP score, on top of the gated lexical sum.
C20_PaddingAlwaysMatches ==
  (RanGIP /\ PadDims # {}) =>
     /\ \A k \in 1..Len(q_args) : \A j \in PadDims : q_args[k][j] = 1
     /\ \A r \in 1..Len(c_args) : \A j \in PadDims : c_args[r][j] = 1
     /\ (args.theta = 0 /\ i >= 1) =>
          \A r \in 1..Len(corpus_embs) :
             scores[r] = LexicalGIP(i, r)
                         + TailSum(query_embs[i], corpus_embs[r],
                                   args.emb_dim + 1, Shape1(query_embs))

C20_Witness ==
  /\ RanGIP /\ PadDims = {3} /\ args.theta = 0 /\ i >= 1
  /\ query_embs[i] = <<1, 2, 3>> /\ q_args[i] = <<0, 0, 1>>
  /\ \E r \in 1..Len(corpus_embs) :
       /\ corpus_embs[r] = <<3, 0, 2>> /\ c_args[r] = <<1, 0, 1>>
       /\ LexicalGIP(i, r) = 0
       /\ scores[r] = 6

\* --------------------------------------------------------------------- C17
\* C17: the flat batched search covers every query exactly once for any
\* number of queries n >= 1 and any batch size b >= 1 (n < b and n divisible
\* by b included): the search never fails, full batches of size b are
\* searched in order, the final batch has the size of the remainder, and the
\* concatenated output has exactly n rows in query order.
C17_FlatCoversEveryQuery ==
  (flat_globals /\ pc \in {"flat_loop", "flat_concat", "flat_done", "error"})
  => /\ pc # "error"
     /\ pc = "flat_concat" =>
          /\ Len(Index) = (Len(query_embs) \div args.batch) + 1
          /\ \A b \in 1..(Len(Index) - 1) : Len(Index[b]) = args.batch
          /\ Len(Index[Len(Index)]) = Len(query_embs) % args.batch
     /\ pc = "flat_done" =>
          /\ Len(Index) = Len(query_embs)
          /\ Len(Distance) = Len(query_embs)
          /\ \A r \in 1..Len(query_embs) :
                IsTopOf(Index[r], Distance[r],
                        0..(Len(corpus_embs) - 1),
                        LAMBDA p : 2 * Dot(query_embs[r], corpus_embs[p + 1]),
                        args.topk)

\* --------------------------------------------------------------------- C18
\* C18: both the query and the corpus vectors are searched as
\* v' = concat(v, v) of dimension 2D, and for every query ordering the
\* corpus items by dot(q', c') is ordering them by dot(q, c): the returned
\* indices are the topk best by dot(q, c), best first.
C18_DoublingPreservesRanking ==
  (pc \in {"flat_loop", "flat_concat", "flat_done"}) =>
     /\ Len(flat_query_embs) = Len(query_embs)
     /\ Len(flat_corpus_embs) = Len(corpus_embs)
     /\ \A r \in 1..Len(query_embs) :
          /\ Len(flat_query_embs[r]) = 2 * Len(query_embs[r])
          /\ \A j \in 1..Len(query_embs[r]) :
                /\ flat_query_embs[r][j] = query_embs[r][j]
                /\ flat_query_embs[r][Len(query_embs[r]) + j] = query_embs[r][j]
     /\ \A n \in 1..Len(corpus_embs) :
          /\ Len(flat_corpus_embs[n]) = 2 * Len(corpus_embs[n])
          /\ \A j \in 1..Len(corpus_embs[n]) :
                /\ flat_corpus_embs[n][j] = corpus_embs[n][j]
                /\ flat_corpus_embs[n][Len(corpus_embs[n]) + j]
                     = corpus_embs[n][j]
     /\ \A r \in 1..Len(query_embs) : \A a, b \in 1..Len(corpus_embs) :
          (Dot(flat_query_embs[r], flat_corpus_embs[a])
             >= Dot(flat_query_embs[r], flat_corpus_embs[b]))
          <=> (Dot(query_embs[r], corpus_embs[a])
                 >= Dot(query_embs[r], corpus_embs[b]))
     /\ pc = "flat_done" =>
          \A r \in 1..Len(Index) :
             /\ \A a, b \in 1..Len(Index[r]) : a < b =>
                   Dot(query_embs[r], corpus_embs[Index[r][a] + 1])
                     >= Dot(query_embs[r], corpus_embs[Index[r][b] + 1])
             /\ \A p \in 1..Len(corpus_embs) :
                   (\A a \in 1..Len(Index[r]) : Index[r][a] + 1 # p) =>
                      \A a \in 1..Len(Index[r]) :
                         Dot(query_embs[r], corpus_embs[Index[r][a] + 1])
                           >= Dot(query_embs[r], corpus_embs[p])

C18_Witness ==
  /\ pc = "flat_done"
  /\ Len(corpus_embs) = 3
  /\ \E r \in 1..Len(Index) :
       /\ query_embs[r] = <<1, 2>>
       /\ flat_query_embs[r] = <<1, 2, 1, 2>>
       /\ Index[r] = <<1, 2>>
       /\ Distance[r] = <<10, 8>>

\* --------------------------------------------------------------------- C12
\* The items of the file at the 1-based positions lo+1..hi.
FileRange(t, lo, hi) == [p \in 1..(hi - lo) |-> t[lo + p]]

\* Where shard s (0-based) starts and ends in a file of n items.
ShardLo(n, s) == (n \div args.total_shrad) * s
ShardHi(n, s) ==
  IF s = args.total_shrad - 1 THEN n ELSE (n \div args.total_shrad) * (s + 1)

\* Concatenation of the field f of the logged shards 1..m.
RECURSIVE LogConcat(_, _)
LogConcat(f, m) ==
  IF m = 0 THEN << >> ELSE LogConcat(f, m - 1) \o shard_log[m][f]

\* C12: for any corpus length N and total_shards >= 1, shard s is the
\* contiguous range [size*s, size*(s+1)) with size = N div total_shards,
\* the last shard running to N; the shards in index order are pairwise
\* disjoint and their concatenation is the full corpus; vectors, argument
\* indices and doc ids are sliced with the same range.
C12_ShardingComplete ==
  LET n == Len(index_pickle.docids)
  IN  /\ \A m \in 1..Len(shard_log) :
            LET lo == ShardLo(n, m - 1)
                hi == ShardHi(n, m - 1)
            IN  /\ 0 <= lo /\ lo <= hi /\ hi <= n
                /\ shard_log[m].docids = FileRange(index_pickle.docids, lo, hi)
                /\ shard_log[m].embs = FileRange(index_pickle.embs, lo, hi)
                /\ shard_log[m].args =
                     IF index_pickle.args = None THEN None
                     ELSE FileRange(index_pickle.args, lo, hi)
                /\ m > 1 => lo = ShardHi(n, m - 2)
      /\ \A a, b \in 1..Len(shard_log) : a # b =>
            Range(shard_log[a].docids) \cap Range(shard_log[b].docids) = {}
      /\ Len(shard_log) <= args.total_shrad
      /\ Len(shard_log) = args.total_shrad =>
            /\ LogConcat("docids", Len(shard_log)) = index_pickle.docids
            /\ LogConcat("embs", Len(shard_log)) = index_pickle.embs
            /\ index_pickle.args # None =>
                  LogConcat("args", Len(shard_log)) = index_pickle.args

C12_Witness ==
  /\ pc = "done"
  /\ Len(shard_log) = 3
  /\ args.total_shrad = 3
  /\ Len(index_pickle.docids) = 5
  /\ index_pickle.args # None
  /\ shard_log[1].docids = << 1 >>
  /\ shard_log[2].docids = << 2 >>
  /\ shard_log[3].docids = << 3, 4, 5 >>
  /\ shard_log[3].args = << << 1 >>, << 0 >>, << 1 >> >>

\* --------------------------------------------------------------------- C13
\* C13: whenever product-quantization mode is selected (PQIP) and no index
\* path is configured, the run fails with a configuration error before any
\* query is searched: it records no result and writes no output.
C13_PQWithoutPathFailsFast ==
  (args.PQIP /\ args.faiss_pq_index_path = NoPath) =>
     /\ pc \in {"load", "dispatch", "error"}
     /\ pc = "error" => error = "AssertionError"
     /\ all_results = << >>
     /\ all_scores = << >>
     /\ fout = << >>

\* --------------------------------------------------------------------- C14
\* The 1-based corpus row a stored candidate index p names.
RowOf(p) == IF p < 0 THEN Len(corpus_embs) + p + 1 ELSE p + 1

\* The score the selected mode gives query k (1-based) for the candidate
\* index p: a function of that query and of the corpus (or its index) only.
ModeScore(k, p) ==
  IF query_arg_idxs = None THEN PlainIP(k, RowOf(p))
  ELSE IF args.PQIP
       THEN IF args.rerank THEN ExactGIP(k, RowOf(p))
            ELSE IF p = NoLabel THEN FloatMin
                 ELSE Dot(faiss_index[p + 1], query_embs[k])
       ELSE IF args.theta = 0 \/ args.rerank THEN ExactGIP(k, RowOf(p))
            ELSE IF args.IP THEN PlainIP(k, RowOf(p))
                 ELSE PrunedGIP(k, RowOf(p))

\* The candidates a recorded entry names, a bare index being one candidate.
Named(entry) == IF IsPyInt(entry) THEN << entry[0] >> ELSE entry

\* Every recorded entry belongs to a query of the run and holds, for each
\* candidate, the score of that query and that candidate.
C14_OwnQueryOnly ==
  (pc \notin {"load", "dispatch"}) =>
     /\ DOMAIN all_results = DOMAIN all_scores
     /\ DOMAIN all_results \subseteq Range(qids)
     /\ \A k \in 1..Len(qids) :
          qids[k] \in DOMAIN all_results =>
             /\ Len(all_scores[qids[k]]) = Len(Named(all_results[qids[k]]))
             /\ \A n \in 1..Len(Named(all_results[qids[k]])) :
                   all_scores[qids[k]][n]
                     = ModeScore(k, Named(all_results[qids[k]])[n])

\* A step records at most one entry and leaves the recorded ones as they are.
C14_OthersUntouched ==
  /\ \A qid \in DOMAIN all_results :
        /\ qid \in DOMAIN all_results'
        /\ all_results'[qid] = all_results[qid]
        /\ all_scores'[qid] = all_scores[qid]
  /\ Cardinality(DOMAIN all_results' \ DOMAIN all_results) <= 1

\* C14: the result (candidates and scores) recorded for a query depends
\* only on that query and the corpus, not on the other queries of the run
\* nor on the order of processing, and processing one query never changes
\* the result already recorded for another query.
C14_QueryIndependence == []C14_OwnQueryOnly /\ [][C14_OthersUntouched]_vars

C14_Witness ==
  /\ pc = "done"
  /\ query_arg_idxs # None /\ ~args.PQIP /\ args.rerank /\ args.theta # 0
  /\ DOMAIN all_results = {1, 2, 3}
  /\ query_embs[1] = query_embs[2]
  /\ all_scores[qids[1]] = all_scores[qids[2]]
  /\ all_scores[qids[1]] # all_scores[qids[3]]

\* --------------------------------------------------------------------- C19
\* C19: after the padding step, for every configured emb_dim, the argument
\* index of every query and of every corpus item has the length D of its
\* vector, in GIP_retrieval as in PQ_IP_retrieval.
C19_ArgIndexLengthIsD ==
  (pc \in {"gip", "pq_search"}) =>
     /\ \A k \in 1..Len(query_embs) : Len(q_args[k]) = Len(query_embs[k])
     /\ \A r \in 1..Len(corpus_embs) : Len(c_args[r]) = Len(corpus_embs[r])

\* --------------------------------------------------------------------- C23
\* PQ_IP_retrieval is past its assert and running or over.
RanPQ ==
  /\ query_arg_idxs # None /\ args.PQIP
  /\ args.faiss_pq_index_path # NoPath
  /\ pc \in {"pq_search", "pq_query", "write", "done", "error"}

\* Number of queries in the batches the outer loop has finished.
BatchesDone == Min2(batch_i * args.batch, Len(query_embs))

\* entry/score are the exact-GIP top-k of the shortlist row candidate for
\* query k: k distinct positions of the row, best first.
IsRerankOf(entry, score, candidate, k) ==
  \E s \in [1..args.topk -> 0..(Len(candidate) - 1)] :
     /\ IsTopOf(s, score, 0..(Len(candidate) - 1),
                LAMBDA p : ExactGIP(k, RowOf(candidate[p + 1])), args.topk)
     /\ entry = [n \in 1..args.topk |-> candidate[s[n] + 1]]

\* C23: in product-quantization mode, for any number of queries and batch
\* size, the run gets through its batches: the batches partition the query
\* list (full batches in order, the last holding the remainder), every
\* query id gets exactly one entry, and the entry comes from the ANN output
\* row of that query: with rerank off the first topk ids and scores of the
\* row as they are, with rerank on the exact-GIP top-K of the row's
\* candidates (a list of topk ids).
C23_PQBatchesCoverEveryQuery ==
  RanPQ =>
     /\ pc # "error"
     /\ DOMAIN all_results = DOMAIN all_scores
     /\ pc = "pq_search" =>
          DOMAIN all_results = { qids[k] : k \in 1..BatchesDone }
     /\ pc \in {"write", "done"} =>
          /\ batch_i = TotalBatch
          /\ DOMAIN all_results = Range(qids)
     /\ pc = "pq_query" =>
          /\ batch_i < TotalBatch
          /\ Len(candidates) >= 1
          /\ Len(candidates) <= args.batch
          /\ Len(candidates) =
               (IF batch_i = TotalBatch - 1
                THEN Len(query_embs) - batch_i * args.batch
                ELSE args.batch)
          /\ DOMAIN all_results = { qids[k] : k \in 1..(BatchesDone + i) }
          /\ \A j \in 1..Len(candidates) :
                Len(candidates[j]) = args.agip_topk
          /\ \A j \in 1..i :
                LET k == BatchesDone + j
                IN  IF args.rerank
                    THEN /\ ~IsPyInt(all_results[qids[k]])
                         /\ IsRerankOf(all_results[qids[k]],
                                       all_scores[qids[k]], candidates[j], k)
                    ELSE /\ all_results[qids[k]]
                              = Slice(candidates[j], 0, args.topk)
                         /\ all_scores[qids[k]]
                              = Slice(scores[j], 0, args.topk)

\* --------------------------------------------------------------------- C21
\* The 1-based place of the value p in the sequence t (p occurs in t).
PlaceIn(t, p) == CHOOSE n \in 1..Len(t) : t[n] = p

\* The shortlist is what the final top-K of the last query selected from.
FromShortlist == RanGIP /\ args.theta # 0 /\ args.rerank

\* C21: top-K extraction lists the K highest scores in descending order
\* and, among candidates of equal score, the one met first by the selector
\* (smaller corpus position, or smaller shortlist position after rerank)
\* comes first, so the ranking is a function of the scores.
C21_TiesKeepEncounterOrder ==
  (RanGIP \/ RanIP) =>
     \A k \in Recorded :
        LET result == all_results[qids[k]]
            score == all_scores[qids[k]]
        IN  \A a, b \in 1..Len(result) :
               a < b =>
                  /\ score[a] >= score[b]
                  /\ (score[a] = score[b] /\ ~FromShortlist) =>
                        result[a] < result[b]
                  /\ (score[a] = score[b] /\ FromShortlist /\ k = i) =>
                        PlaceIn(candidates, result[a])
                          < PlaceIn(candidates, result[b])

\* --------------------------------------------------------------------- C22
\* C22 (as stated): once the queries and the corpus are loaded, no step of
\* the run, the weighting of the semantic block by lamda included, changes
\* the query vectors, the corpus vectors, the argument indices or the ids.
C22_AllLoadedDataFrozen ==
  [][/\ query_embs' = query_embs
     /\ query_arg_idxs' = query_arg_idxs
     /\ qids' = qids
     /\ pc # "load" =>
          UNCHANGED << corpus_embs, corpus_arg_idxs, docids >>]_vars

\* The step of main between the unpickling and the dispatch changes the
\* query vectors only in their semantic block, by the factor lamda.
OnlyTailWeighted ==
  /\ query_arg_idxs' = query_arg_idxs
  /\ qids' = qids
  /\ Len(query_embs') = Len(query_embs)
  /\ \A k \in 1..Len(query_embs) :
        /\ Len(query_embs'[k]) = Len(query_embs[k])
        /\ \A j \in 1..Len(query_embs[k]) :
              query_embs'[k][j] =
                 IF j > args.emb_dim THEN args.lamda * query_embs[k][j]
                 ELSE query_embs[k][j]

\* C22 (amended): the weighting by lamda rewrites the semantic block of the
\* loaded query vectors in place, once, before the search; apart from it no
\* step (padding, candidate selection, rerank, top-K, writing) changes the
\* query vectors, the corpus vectors of the shard, the argument indices or
\* the ids.
C22_FrozenAfterWeighting ==
  [][/\ pc = "load" => OnlyTailWeighted
     /\ pc # "load" => UNCHANGED data]_vars

C22_Witness ==
  /\ pc = "done"
  /\ args.lamda = 2 /\ args.emb_dim = 2
  /\ query_arg_idxs # None /\ ~args.PQIP
  /\ query_embs[1] = <<1, 2, 6>>
  /\ query_arg_idxs[1] = <<0, 0>>
  /\ q_args[1] = <<0, 0, 1>>
  /\ Len(corpus_embs) < Len(index_pickle.embs)

\* --------------------------------------------------------------------- C24
\* The run went through IP_retrieval or GIP_retrieval.
NotPQ == query_arg_idxs = None \/ ~args.PQIP

\* Number of candidates the final top-K of a query can choose from.
Available ==
  IF query_arg_idxs # None /\ args.theta # 0 /\ args.rerank
  THEN Min2(args.agip_topk, Len(corpus_embs))
  ELSE Len(corpus_embs)

\* C24: for any shard of N corpus items and any topk and agip_topk (topk > N
\* or agip_topk > N and an empty shard included), every query completes
\* without error and its result has exactly min(topk, number of available
\* candidates) entries, in GIP_retrieval as in IP_retrieval.
C24_EveryQueryCompletes ==
  (NotPQ /\ pc \notin {"load", "dispatch"}) =>
     /\ pc # "error"
     /\ \A k \in Recorded :
          Len(all_results[qids[k]]) = Min2(args.topk, Available)

\* --------------------------------------------------------------------- C25
\* C25: every candidate index stored in a result is a valid local offset
\* into the loaded shard, 0 <= index < number of doc ids of the shard, in
\* every mode (a product-quantization run on a shard included); the result
\* and the score list of a query have the same length; resolving the
\* indices at write time never goes out of range, and every row written
\* names the item of this shard at that offset.
C25_IndicesAreLocalOffsets ==
  /\ error # "IndexError"
  /\ pc \notin {"load", "dispatch"} =>
       /\ docids = FileRange(index_pickle.docids,
                             ShardLo(Len(index_pickle.docids), args.shrad),
                             ShardHi(Len(index_pickle.docids), args.shrad))
       /\ Len(corpus_embs) = Len(docids)
       /\ \A qid \in DOMAIN all_results :
             /\ qid \in DOMAIN all_scores
             /\ ~IsPyInt(all_results[qid])
             /\ Len(all_scores[qid]) = Len(all_results[qid])
             /\ \A n \in 1..Len(all_results[qid]) :
                   /\ 0 <= all_results[qid][n]
                   /\ all_results[qid][n] < Len(docids)
       /\ \A r \in 1..Len(fout) :
             /\ fout[r].query_id \in DOMAIN all_results
             /\ fout[r].rank \in 1..Len(all_results[fout[r].query_id])
             /\ fout[r].docid =
                  docids[all_results[fout[r].query_id][fout[r].rank] + 1]

C25_Witness ==
  /\ pc = "done"
  /\ args.total_shrad = 2 /\ args.shrad = 1
  /\ Len(docids) = 2 /\ Len(index_pickle.docids) = 3
  /\ \E r \in 1..Len(fout) :
        /\ all_results[fout[r].query_id][fout[r].rank] = 1
        /\ fout[r].docid = 3

====
